---- MODULE Spec2Model ----
(***************************************************************************)
(* Threaded pair kernels coul/debye/omp and coul/diel/omp: pair table      *)
(* set-up, the per-thread pair loop of eval(), the reductions, single()    *)
(* and the restart settings block.                                         *)
(*                                                                         *)
(* A C double is modelled as an exact rational [n, d] in lowest terms with *)
(* d > 0; d = 0 stands for the IEEE non-finite values (n = 1: +inf,        *)
(* n = -1: -inf, n = 0: NaN), so that 1.0/0.0 and 0.0*inf behave as the    *)
(* hardware does.  Rounding is not modelled.                               *)
(***************************************************************************)
EXTENDS Integers, Sequences, FiniteSets, TLC

(* ------------------------------------------------------------------ *)
(* double arithmetic                                                    *)
(* ------------------------------------------------------------------ *)

\* F applied to the value of v (of v and w): the operand is evaluated once,
\* however often F uses it
With(v, F(_)) == CHOOSE r \in {F(a) : a \in {v}} : TRUE

With2(v, w, F(_, _)) == CHOOSE r \in {F(a, b) : a \in {v}, b \in {w}} : TRUE

RECURSIVE GCD(_, _)
GCD(a, b) == IF b = 0 THEN a ELSE With(a % b, LAMBDA m : GCD(b, m))

Abs(n) == IF n < 0 THEN -n ELSE n

Sgn(n) == IF n < 0 THEN -1 ELSE IF n > 0 THEN 1 ELSE 0

NaN == [n |-> 0, d |-> 0]

Inf(s) == [n |-> s, d |-> 0]

RatV(n, d) ==
  With(GCD(Abs(n), Abs(d)),
       LAMBDA g : [n |-> (IF d < 0 THEN -1 ELSE 1) * (n \div g), d |-> Abs(d) \div g])

\* n/d in lowest terms, d # 0
Rat(n, d) == With2(n, d, RatV)

RI(n) == [n |-> n, d |-> 1]

Zero == RI(0)

One == RI(1)

IsFinite(x) == x.d # 0

IsNaN(x) == x.d = 0 /\ x.n = 0

RNeg(x) == With(x, LAMBDA a : [n |-> -a.n, d |-> a.d])

AddV(x, y) ==
  IF IsFinite(x) /\ IsFinite(y)
  THEN With(GCD(x.d, y.d),
            LAMBDA g : Rat(x.n * (y.d \div g) + y.n * (x.d \div g), (x.d \div g) * y.d))
  ELSE IF IsNaN(x) \/ IsNaN(y) THEN NaN
  ELSE IF IsFinite(x) THEN y
  ELSE IF IsFinite(y) THEN x
  ELSE IF x.n = y.n THEN x ELSE NaN

RAdd(x, y) == With2(x, y, AddV)

RSub(x, y) == RAdd(x, RNeg(y))

MulV(x, y) ==
  IF IsFinite(x) /\ IsFinite(y)
  THEN With2(GCD(Abs(x.n), y.d), GCD(Abs(y.n), x.d),
             LAMBDA g1, g2 : [n |-> (x.n \div g1) * (y.n \div g2),
                              d |-> (x.d \div g2) * (y.d \div g1)])
  ELSE IF IsNaN(x) \/ IsNaN(y) THEN NaN
  ELSE IF x.n = 0 \/ y.n = 0 THEN NaN
  ELSE Inf(Sgn(x.n) * Sgn(y.n))

RMul(x, y) == With2(x, y, MulV)

InvV(x) ==
  IF IsFinite(x)
  THEN IF x.n = 0 THEN Inf(1) ELSE [n |-> Sgn(x.n) * x.d, d |-> Abs(x.n)]
  ELSE IF IsNaN(x) THEN NaN ELSE Zero

\* 1.0/x : 1.0/0.0 is +inf, 1.0/inf is 0.0
RInv(x) == With(x, InvV)

RDiv(x, y) == RMul(x, RInv(y))

LtV(x, y) ==
  IF IsNaN(x) \/ IsNaN(y) THEN FALSE
  ELSE IF IsFinite(x) /\ IsFinite(y) THEN x.n * y.d < y.n * x.d
  ELSE IF x = y THEN FALSE
  ELSE IF ~IsFinite(x) THEN x.n < 0
  ELSE y.n > 0

\* x < y ; any comparison with NaN is false
RLt(x, y) == With2(x, y, LtV)

RECURSIVE ISqrtFrom(_, _)
ISqrtFrom(n, k) == IF (k + 1) * (k + 1) > n THEN k ELSE ISqrtFrom(n, k + 1)

SqrtV(x) ==
  IF ~IsFinite(x) THEN (IF x.n > 0 THEN x ELSE NaN)
  ELSE IF x.n < 0 THEN NaN
  ELSE Rat(ISqrtFrom(x.n * x.d, 0), x.d)

\* sqrt(): exact on the squares of rationals, rounded down otherwise
Sqrt(x) == With(x, SqrtV)

ExpV(y) ==
  IF ~IsFinite(y) THEN (IF IsNaN(y) THEN NaN ELSE IF y.n > 0 THEN y ELSE Zero)
  ELSE IF y.n >= 0 THEN RAdd(One, y) ELSE RInv(RAdd(One, RNeg(y)))

\* exp(): the rational approximant 1 + y for y >= 0 and 1/(1 - y) for
\* y < 0; positive, strictly increasing, Exp(0) = 1
Exp(y) == With(y, ExpV)

TanhV(y) ==
  IF ~IsFinite(y) THEN (IF IsNaN(y) THEN NaN ELSE RI(y.n))
  ELSE RDiv(y, RAdd(One, [n |-> Abs(y.n), d |-> y.d]))

\* tanh(): the rational approximant y/(1+|y|); odd, strictly increasing,
\* Tanh(0) = 0 and |Tanh(y)| < 1
Tanh(y) == With(y, TanhV)

Vec0 == <<Zero, Zero, Zero>>

VAdd(u, v) ==
  With2(u, v, LAMBDA a, b : <<RAdd(a[1], b[1]), RAdd(a[2], b[2]), RAdd(a[3], b[3])>>)

VSub(u, v) ==
  With2(u, v, LAMBDA a, b : <<RSub(a[1], b[1]), RSub(a[2], b[2]), RSub(a[3], b[3])>>)

VScale(u, s) ==
  With2(u, s, LAMBDA a, c : <<RMul(a[1], c), RMul(a[2], c), RMul(a[3], c)>>)

VFinite(u) == IsFinite(u[1]) /\ IsFinite(u[2]) /\ IsFinite(u[3])

(* ------------------------------------------------------------------ *)
(* inputs supplied by the engine: atom, neighbor list, force constants  *)
(* ------------------------------------------------------------------ *)

Pos(a, b, c) == <<RI(a), RI(b), RI(c)>>

\* three owned particles and one ghost on the corners of a 3 x 4 rectangle
\* (all separations 3, 4 or 5); neighbor entries tagged with selectors 1 and 2;
\* forces of other styles are already in the force array
SnapA ==
  [nlocal |-> 3, nghost |-> 1, ntypes |-> 2,
   x |-> (0 :> Pos(0, 0, 0) @@ 1 :> Pos(3, 0, 0) @@ 2 :> Pos(0, 4, 0) @@ 3 :> Pos(3, 4, 0)),
   q |-> (0 :> RI(1) @@ 1 :> RI(-1) @@ 2 :> RI(2) @@ 3 :> RI(1)),
   type |-> (0 :> 1 @@ 1 :> 2 @@ 2 :> 1 @@ 3 :> 2),
   f |-> (0 :> Pos(1, 0, 0) @@ 1 :> Vec0 @@ 2 :> Vec0 @@ 3 :> Pos(0, -2, 0)),
   inum |-> 3,
   ilist |-> (0 :> 1 @@ 1 :> 0 @@ 2 :> 2),
   firstneigh |-> (0 :> <<1, 2 + 2 * 4>> @@ 1 :> <<2 + 1 * 4>> @@ 2 :> <<3>>),
   qqrd2e |-> One,
   special_coul |-> (0 :> One @@ 1 :> Zero @@ 2 :> Rat(1, 2) @@ 3 :> One)]

\* two owned particles and one ghost in the x-z plane; the first owner has
\* no neighbors
SnapB ==
  [nlocal |-> 2, nghost |-> 1, ntypes |-> 2,
   x |-> (0 :> Pos(0, 0, 0) @@ 1 :> Pos(0, 0, 3) @@ 2 :> Pos(4, 0, 3)),
   q |-> (0 :> RI(2) @@ 1 :> RI(1) @@ 2 :> RI(-1)),
   type |-> (0 :> 2 @@ 1 :> 1 @@ 2 :> 2),
   f |-> (0 :> Vec0 @@ 1 :> Vec0 @@ 2 :> Vec0),
   inum |-> 2,
   ilist |-> (0 :> 0 @@ 1 :> 1),
   firstneigh |-> (0 :> <<>> @@ 1 :> <<0 + 2 * 3, 2>>),
   qqrd2e |-> One,
   special_coul |-> (0 :> One @@ 1 :> Zero @@ 2 :> Rat(1, 2) @@ 3 :> One)]

\* particles 0 and 1 at the same position and listed as neighbors
SnapD ==
  [nlocal |-> 2, nghost |-> 1, ntypes |-> 2,
   x |-> (0 :> Pos(0, 0, 0) @@ 1 :> Pos(0, 0, 0) @@ 2 :> Pos(3, 0, 0)),
   q |-> (0 :> RI(1) @@ 1 :> RI(-1) @@ 2 :> RI(2)),
   type |-> (0 :> 1 @@ 1 :> 2 @@ 2 :> 1),
   f |-> (0 :> Vec0 @@ 1 :> Vec0 @@ 2 :> Vec0),
   inum |-> 2,
   ilist |-> (0 :> 0 @@ 1 :> 1),
   firstneigh |-> (0 :> <<1, 2>> @@ 1 :> <<2 + 2 * 3>>),
   qqrd2e |-> One,
   special_coul |-> (0 :> One @@ 1 :> Zero @@ 2 :> Rat(1, 2) @@ 3 :> One)]

SnapOf(name) == CASE name = "A" -> SnapA [] name = "B" -> SnapB [] name = "D" -> SnapD

Snapshots == {"A", "B"}

MaxThreads == 2

VARIABLES
  style,          \* "debye" or "diel": which pair class is instantiated
  newton_pair,    \* force->newton_pair
  nthreads,       \* comm->nthreads
  snapshot,       \* which engine snapshot the run works on
  phase,          \* "new", "config", "ready", "eval", "written", "restarted", "error"
  error,          \* the message of error->all(), "" while there is none
  pair,           \* the members of the pair object
  EVFLAG, EFLAG, NEWTON_PAIR,   \* template arguments of the running eval<>()
  thr,            \* the locals of each thread inside the parallel region
  fthr,           \* the force buffer of each thread
  eng_coul_thr,   \* the energy accumulator of each thread
  virial_thr,     \* the virial accumulator of each thread
  f,              \* atom->f
  eng_coul,       \* the global Coulomb energy
  virial,         \* the global virial
  visits,         \* how often each neighbor entry (ii, jj) has been processed
  single_out,     \* arguments and results of the last single() call
  fp,             \* the restart stream
  rst,            \* the pair object that read_restart fills
  dump            \* the members of the DumpH5MD object and the datasets of its file

vars == <<style, newton_pair, nthreads, snapshot, phase, error, pair,
          EVFLAG, EFLAG, NEWTON_PAIR, thr, fthr, eng_coul_thr, virial_thr, f, eng_coul, virial, visits,
          single_out, fp, rst, dump>>

\* what no operation of the pair styles changes
envVars == <<style, newton_pair, nthreads, snapshot, dump>>

\* atom->..., list->..., force->qqrd2e, force->special_coul
snap == SnapOf(snapshot)

evalVars == <<EVFLAG, EFLAG, NEWTON_PAIR, thr, fthr, eng_coul_thr, virial_thr,
              f, eng_coul, virial, visits>>

Types == 1 .. snap.ntypes

nall == snap.nlocal + snap.nghost

Atoms == 0 .. (nall - 1)

Threads == 0 .. (nthreads - 1)

TypePairs == {ij \in Types \X Types : ij[1] <= ij[2]}

(* ------------------------------------------------------------------ *)
(* the pair object: construction, settings(), coeff(), init_one()       *)
(* ------------------------------------------------------------------ *)

\* the content of a double that was allocated or declared but never assigned
Unassigned == NaN

NoTable == [i \in {} |-> 0]

\* the members of a pair object before settings(); offset_flag and mix_flag
\* are set by pair_modify
NewPair(oflag, mflag) ==
  [allocated |-> 0, cut_global |-> Unassigned, kappa |-> Unassigned,
   eps_s |-> Unassigned, a_eps |-> Unassigned, b_eps |-> Unassigned,
   offset_flag |-> oflag, mix_flag |-> mflag,
   setflag |-> NoTable, cutsq |-> NoTable, cut |-> NoTable,
   sigmae |-> NoTable, rme |-> NoTable, offset |-> NoTable]

FreshTable == [i \in Types |-> [j \in Types |-> Unassigned]]

\* allocate(): setflag[i][j] = 0 for j >= i, the double arrays are created
\* without being filled
allocate(P) ==
  [P EXCEPT !.allocated = 1,
            !.setflag = [ij \in TypePairs |-> 0],
            !.cutsq = FreshTable, !.cut = FreshTable, !.sigmae = FreshTable,
            !.rme = FreshTable, !.offset = FreshTable]

\* the loop of settings(): for i = 1..n, for j = i+1..n,
\* if (setflag[i][j]) cut[i][j] = cut_global
ResetCutsV(P) ==
  [P EXCEPT !.cut = [i \in Types |-> [j \in Types |->
     IF j >= i + 1 /\ P.setflag[<<i, j>>] # 0 THEN P.cut_global ELSE P.cut[i][j]]]]

ResetCuts(P) == With(P, LAMBDA Q : IF Q.allocated # 0 THEN ResetCutsV(Q) ELSE Q)

\* error->all(msg): the run ends
Fatal(msg) == phase' = "error" /\ error' = msg

DebyeSettingsArgs ==
  {[narg |-> 2, kappa |-> Rat(1, 2), cut_global |-> RI(6)],
   [narg |-> 2, kappa |-> Rat(1, 2), cut_global |-> RI(4)],
   [narg |-> 1, kappa |-> Rat(1, 2), cut_global |-> RI(6)]}

DielSettingsArgs ==
  {[narg |-> 1, cut_global |-> RI(6)],
   [narg |-> 1, cut_global |-> RI(4)],
   [narg |-> 2, cut_global |-> RI(6)]}

restVars == <<EVFLAG, EFLAG, NEWTON_PAIR, thr, fthr, eng_coul_thr, virial_thr,
              f, eng_coul, virial, visits, single_out, fp, rst>>

\* PairCoulDebyeOMP::settings
DebyeSettings(arg) ==
  /\ style = "debye"
  /\ phase \in {"new", "config"}
  /\ IF arg.narg # 2
     THEN Fatal("Illegal pair_style command") /\ pair' = pair
     ELSE /\ pair' = ResetCuts([pair EXCEPT !.kappa = arg.kappa,
                                            !.cut_global = arg.cut_global])
          /\ phase' = "config"
          /\ error' = error
  /\ UNCHANGED <<envVars, restVars>>

\* PairCoulDielOMP::settings
DielSettings(arg) ==
  /\ style = "diel"
  /\ phase \in {"new", "config"}
  /\ IF arg.narg # 1
     THEN Fatal("Illegal pair_style command") /\ pair' = pair
     ELSE /\ pair' = ResetCuts([pair EXCEPT !.cut_global = arg.cut_global])
          /\ phase' = "config"
          /\ error' = error
  /\ UNCHANGED <<envVars, restVars>>

Max(a, b) == IF a > b THEN a ELSE b

\* the (i, j) that the loops of coeff() assign:
\* for i = ilo..ihi, for j = MAX(jlo,i)..jhi
CoeffRange(a) ==
  {ij \in Types \X Types :
     /\ a.ilo <= ij[1] /\ ij[1] <= a.ihi
     /\ Max(a.jlo, ij[1]) <= ij[2] /\ ij[2] <= a.jhi}

SetIn(tab, R, v) ==
  [i \in Types |-> [j \in Types |-> IF <<i, j>> \in R THEN v ELSE tab[i][j]]]

\* pair_coeff lines of the dielectric style: type ranges as force->bounds()
\* returns them, eps_s, rme, sigmae and the optional cutoff
DielCoeffArgs ==
  {[narg |-> 5, ilo |-> 1, ihi |-> snap.ntypes, jlo |-> 1, jhi |-> snap.ntypes,
    eps_s |-> Rat(34, 5), rme |-> RI(4), sigmae |-> One, cut |-> Unassigned],
   [narg |-> 6, ilo |-> 1, ihi |-> 1, jlo |-> 2, jhi |-> 2,
    eps_s |-> Rat(34, 5), rme |-> RI(3), sigmae |-> One, cut |-> RI(4)],
   [narg |-> 5, ilo |-> 2, ihi |-> 2, jlo |-> 1, jhi |-> 1,
    eps_s |-> Rat(34, 5), rme |-> RI(4), sigmae |-> One, cut |-> Unassigned],
   [narg |-> 4, ilo |-> 1, ihi |-> 1, jlo |-> 1, jhi |-> 1,
    eps_s |-> Rat(34, 5), rme |-> RI(4), sigmae |-> One, cut |-> Unassigned]}

\* the assignments of PairCoulDielOMP::coeff after the argument check
DielCoeffBody(P, a) ==
  [P EXCEPT !.eps_s = a.eps_s,
            !.sigmae = SetIn(P.sigmae, CoeffRange(a), a.sigmae),
            !.rme = SetIn(P.rme, CoeffRange(a), a.rme),
            !.cut = SetIn(P.cut, CoeffRange(a),
                          IF a.narg = 6 THEN a.cut ELSE P.cut_global),
            !.setflag = [ij \in TypePairs |->
                           IF ij \in CoeffRange(a) THEN 1 ELSE P.setflag[ij]],
            !.a_eps = RMul(Rat(1, 2), RAdd(Rat(26, 5), a.eps_s)),
            !.b_eps = RMul(Rat(1, 2), RSub(a.eps_s, Rat(26, 5)))]

\* PairCoulDielOMP::coeff
DielCoeff(a) ==
  /\ style = "diel"
  /\ phase = "config"
  /\ IF a.narg < 5 \/ a.narg > 6
     THEN Fatal("Incorrect args for pair coefficients") /\ pair' = pair
     ELSE /\ pair' = With(IF pair.allocated = 0 THEN allocate(pair) ELSE pair,
                          LAMBDA P : DielCoeffBody(P, a))
          /\ IF CoeffRange(a) = {}
             THEN Fatal("Incorrect args for pair coefficients")
             ELSE phase' = phase /\ error' = error
  /\ UNCHANGED <<envVars, restVars>>

\* pair_coeff lines of the Debye style (coeff() of the base class
\* PairCoulCut): type ranges and the optional cutoff
CutCoeffArgs ==
  {[narg |-> 2, ilo |-> 1, ihi |-> snap.ntypes, jlo |-> 1, jhi |-> snap.ntypes,
    cut |-> Unassigned],
   [narg |-> 3, ilo |-> 1, ihi |-> 1, jlo |-> 2, jhi |-> 2, cut |-> RI(4)],
   [narg |-> 1, ilo |-> 1, ihi |-> 1, jlo |-> 1, jhi |-> 1, cut |-> Unassigned]}

CutCoeffBody(P, a) ==
  [P EXCEPT !.cut = SetIn(P.cut, CoeffRange(a),
                          IF a.narg = 3 THEN a.cut ELSE P.cut_global),
            !.setflag = [ij \in TypePairs |->
                           IF ij \in CoeffRange(a) THEN 1 ELSE P.setflag[ij]]]

\* coeff() of the Debye style: stores the cutoff of the named type pairs
CutCoeff(a) ==
  /\ style = "debye"
  /\ phase = "config"
  /\ IF a.narg < 2 \/ a.narg > 3
     THEN Fatal("Incorrect args for pair coefficients") /\ pair' = pair
     ELSE /\ pair' = With(IF pair.allocated = 0 THEN allocate(pair) ELSE pair,
                          LAMBDA P : CutCoeffBody(P, a))
          /\ IF CoeffRange(a) = {}
             THEN Fatal("Incorrect args for pair coefficients")
             ELSE phase' = phase /\ error' = error
  /\ UNCHANGED <<envVars, restVars>>

\* Mirror without the assignment of the (j, i) entry
MirrorNone(tab, i, j) == tab

\* tab[j][i] = tab[i][j]
Mirror(tab, i, j) == [tab EXCEPT ![j][i] = tab[i][j]]

\* the offset assigned by PairCoulDielOMP::init_one; q is indexed with the
\* type numbers i and j
DielOffset(P, i, j) ==
  IF P.offset_flag # 0
  THEN With(RAdd(P.a_eps,
                 RMul(P.b_eps, Tanh(RDiv(RSub(P.cut[i][j], P.rme[i][j]), P.sigmae[i][j])))),
            LAMBDA epsr :
              RDiv(RMul(RMul(RMul(snap.qqrd2e, snap.q[i]), snap.q[j]),
                        RSub(RDiv(P.eps_s, epsr), One)),
                   P.cut[i][j]))
  ELSE Zero

DielInitOneV(P, i, j) ==
  IF P.setflag[<<i, j>>] = 0
  THEN [err |-> TRUE, P |-> P, cut |-> Unassigned]
  ELSE [err |-> FALSE,
        P |-> [P EXCEPT !.offset = Mirror([P.offset EXCEPT ![i][j] = DielOffset(P, i, j)], i, j),
                        !.sigmae = Mirror(P.sigmae, i, j),
                        !.rme = Mirror(P.rme, i, j),
                        !.cut = Mirror(P.cut, i, j)],
        cut |-> P.cut[i][j]]

\* init_one without the test of the set flag
DielInitOneUnchecked(P, i, j) ==
  With(P, LAMBDA Q :
    [err |-> FALSE,
     P |-> [Q EXCEPT !.offset = Mirror([Q.offset EXCEPT ![i][j] = DielOffset(Q, i, j)], i, j),
                     !.sigmae = Mirror(Q.sigmae, i, j),
                     !.rme = Mirror(Q.rme, i, j),
                     !.cut = Mirror(Q.cut, i, j)],
     cut |-> Q.cut[i][j]])

\* PairCoulDielOMP::init_one: err is the call of error->all
DielInitOne(P, i, j) == With(P, LAMBDA Q : DielInitOneV(Q, i, j))

CutInitOneV(P, i, j) ==
  With(IF P.setflag[<<i, j>>] = 0 THEN P.cut_global ELSE P.cut[i][j],
       LAMBDA c : [err |-> FALSE,
                   P |-> [P EXCEPT !.cut = [@ EXCEPT ![i][j] = c, ![j][i] = c]],
                   cut |-> c])

\* init_one() of the Debye style: an unset pair gets the global cutoff
CutInitOne(P, i, j) == With(P, LAMBDA Q : CutInitOneV(Q, i, j))

init_one(P, i, j) ==
  IF style = "diel" THEN DielInitOne(P, i, j) ELSE CutInitOne(P, i, j)

PairRank(p) ==
  Cardinality({r \in TypePairs : r[1] < p[1] \/ (r[1] = p[1] /\ r[2] <= p[2])})

\* the type pairs in the order of  for i = 1..n, for j = i..n
PairSeq == [k \in 1 .. Cardinality(TypePairs) |-> CHOOSE p \in TypePairs : PairRank(p) = k]

SetCutsq(P, i, j, cut) ==
  With(RMul(cut, cut), LAMBDA c2 : [P EXCEPT !.cutsq = [@ EXCEPT ![i][j] = c2, ![j][i] = c2]])

\* the loop of the engine's init over the type pairs from the k-th on:
\* cut = init_one(i,j); cutsq[i][j] = cutsq[j][i] = cut*cut
RECURSIVE InitFrom(_, _)
InitFrom(P, k) ==
  IF k > Len(PairSeq)
  THEN [err |-> FALSE, P |-> P]
  ELSE With(init_one(P, PairSeq[k][1], PairSeq[k][2]),
            LAMBDA r : IF r.err THEN [err |-> TRUE, P |-> r.P]
                       ELSE With(SetCutsq(r.P, PairSeq[k][1], PairSeq[k][2], r.cut),
                                 LAMBDA Q : InitFrom(Q, k + 1)))

\* the engine's init of the pair style before a run
PairInit ==
  /\ phase = "config"
  /\ IF pair.allocated = 0
     THEN Fatal("All pair coeffs are not set") /\ pair' = pair
     ELSE \E r \in {InitFrom(pair, 1)} :
            /\ pair' = r.P
            /\ IF r.err
               THEN Fatal("for pair style coul/diel, parameters need to be set explicitly for all pairs.")
               ELSE phase' = "ready" /\ error' = error
  /\ UNCHANGED <<envVars, restVars>>

(* ------------------------------------------------------------------ *)
(* compute() and eval<EVFLAG,EFLAG,NEWTON_PAIR>()                       *)
(* ------------------------------------------------------------------ *)

Min(a, b) == IF a < b THEN a ELSE b

\* the range [iifrom, iito) of thread tid: inum split evenly, the remainder
\* going to the first threads
loop_setup_thr(tid, inum, nth) ==
  [iifrom |-> tid * (inum \div nth) + Min(tid, inum % nth),
   iito |-> (tid + 1) * (inum \div nth) + Min(tid + 1, inum % nth)]

Vir0 == <<Zero, Zero, Zero, Zero, Zero, Zero>>

VirAdd(u, v) == With2(u, v, LAMBDA a, b : [k \in 1 .. 6 |-> RAdd(a[k], b[k])])

ZeroForce == [a \in Atoms |-> Vec0]

\* jnum = numneigh[ilist[ii]]
Jnum(ii) == Len(snap.firstneigh[snap.ilist[ii]])

\* the loops with jj starting at 1 for every owner after the first
RECURSIVE SeekSkipsFirst(_, _, _)
SeekSkipsFirst(ii, jj, iito) ==
  IF ~(ii < iito) THEN <<iito, 0>>
  ELSE IF jj < Jnum(ii) THEN <<ii, jj>>
  ELSE SeekSkipsFirst(ii + 1, 1, iito)

\* the loop position that follows (ii, jj - 1): the next (ii, jj) with
\* ii < iito and jj < jnum, or (iito, 0) when the loops are over
RECURSIVE Seek(_, _, _)
Seek(ii, jj, iito) ==
  IF ~(ii < iito) THEN <<iito, 0>>
  ELSE IF jj < Jnum(ii) THEN <<ii, jj>>
  ELSE Seek(ii + 1, 0, iito)

\* the positions (ii, jj) of all neighbor entries
Entries == {e \in (0 .. (snap.inum - 1)) \X (0 .. nall) : e[2] < Jnum(e[1])}

IdleThread ==
  [pc |-> "idle", iifrom |-> 0, iito |-> 0, ii |-> 0, jj |-> 0, i |-> 0, j |-> 0,
   itype |-> 0, jtype |-> 0, factor_coul |-> Unassigned, del |-> Vec0,
   rsq |-> Unassigned, fpair |-> Unassigned, ecoul |-> Unassigned, last |-> "none"]

\* the locals of thread tid when it reaches the loop over its range; g is
\* the content of jtype, which is declared without a value
ThreadEntry(tid, g) ==
  With2(loop_setup_thr(tid, snap.inum, nthreads), g,
        LAMBDA R, jt :
          With(Seek(R.iifrom, 0, R.iito),
               LAMBDA at : [IdleThread EXCEPT !.pc = IF at[1] < R.iito THEN "loop" ELSE "barrier",
                                              !.iifrom = R.iifrom, !.iito = R.iito,
                                              !.ii = at[1], !.jj = at[2],
                                              !.jtype = jt, !.ecoul = Zero]))

\* compute(eflag, vflag): ev_setup, selection of the eval<> variant and
\* entry of all threads into the parallel region
Compute(eflag, vflag) ==
  /\ phase = "ready"
  /\ EVFLAG' = (IF eflag # 0 \/ vflag # 0 THEN 1 ELSE 0)
  /\ EFLAG' = eflag
  /\ NEWTON_PAIR' = newton_pair
  /\ \E g \in [Threads -> IF style = "diel" THEN Types ELSE {0}] :
       thr' = [t \in Threads |-> ThreadEntry(t, g[t])]
  /\ fthr' = [t \in Threads |-> ZeroForce]
  /\ eng_coul_thr' = [t \in Threads |-> Zero]
  /\ virial_thr' = [t \in Threads |-> Vir0]
  /\ f' = snap.f
  /\ eng_coul' = Zero
  /\ virial' = Vir0
  /\ visits' = [e \in Entries |-> 0]
  /\ single_out' = [called |-> FALSE]
  /\ phase' = "eval"
  /\ UNCHANGED <<envVars, error, pair, fp, rst>>

\* the decode with the scale factor left at 1
DecodeUnscaled(e) == [j |-> e % nall, factor_coul |-> One]

\* j = jlist[jj]; if (j < nall) factor_coul = 1.0;
\* else { factor_coul = special_coul[j/nall]; j %= nall; }
Decode(e) ==
  IF e < nall THEN [j |-> e, factor_coul |-> One]
  ELSE [j |-> e % nall, factor_coul |-> snap.special_coul[e \div nall]]

Rsq(del) ==
  With(del, LAMBDA d : RAdd(RAdd(RMul(d[1], d[1]), RMul(d[2], d[2])), RMul(d[3], d[3])))

\* the owner, the decoded partner and their separation at loop position (ii, jj)
Geometry(ii, jj) ==
  With2(snap.ilist[ii], Decode(snap.firstneigh[snap.ilist[ii]][jj + 1]),
        LAMBDA i, d :
          With(VSub(snap.x[i], snap.x[d.j]),
               LAMBDA del : [i |-> i, j |-> d.j, factor_coul |-> d.factor_coul,
                             itype |-> snap.type[i], del |-> del, rsq |-> Rsq(del)]))

\* if (rsq < cutsq[itype][jtype])
CutTest(rsq, itype, jtype) == RLt(rsq, pair.cutsq[itype][jtype])

\* the force writes with the test of NEWTON_PAIR and nlocal left out
ApplyPairAlways(buf, i, j, del, fpair) ==
  With(VScale(del, fpair),
       LAMBDA df : [a \in Atoms |-> IF a = i THEN VAdd(buf[a], df)
                                    ELSE IF a = j THEN VSub(buf[a], df) ELSE buf[a]])

\* f[i] += del*fpair; if (NEWTON_PAIR || j < nlocal) f[j] -= del*fpair;
ApplyPair(buf, i, j, del, fpair) ==
  With(VScale(del, fpair),
       LAMBDA df :
         With([buf EXCEPT ![i] = VAdd(@, df)],
              LAMBDA b1 : IF NEWTON_PAIR # 0 \/ j < snap.nlocal
                          THEN [b1 EXCEPT ![j] = VSub(@, df)]
                          ELSE b1))

\* the six products of the separation and the pair force
VirialOf(del, fpair) ==
  With2(del, fpair,
        LAMBDA d, fp0 : <<RMul(RMul(d[1], d[1]), fp0), RMul(RMul(d[2], d[2]), fp0),
                          RMul(RMul(d[3], d[3]), fp0), RMul(RMul(d[1], d[2]), fp0),
                          RMul(RMul(d[1], d[3]), fp0), RMul(RMul(d[2], d[3]), fp0)>>)

\* the body of  if (rsq < cutsq[itype][jtype])  of PairCoulDebyeOMP::eval up
\* to the assignment of ecoul; ecoul keeps its value unless EFLAG
DebyeKernel(EF, qi, qj, rsq, factor_coul, ecoul) ==
  With2(RInv(rsq), Sqrt(rsq),
        LAMBDA r2inv, r :
          With2(RInv(r), Exp(RMul(RNeg(pair.kappa), r)),
                LAMBDA rinv, screening :
                  With(RMul(RMul(RMul(RMul(snap.qqrd2e, qi), qj), screening),
                            RAdd(pair.kappa, rinv)),
                       LAMBDA forcecoul :
                         [fpair |-> RMul(RMul(factor_coul, forcecoul), r2inv),
                          ecoul |-> IF EF # 0
                                    THEN RMul(RMul(RMul(RMul(RMul(factor_coul, snap.qqrd2e), qi), qj),
                                                   rinv), screening)
                                    ELSE ecoul])))

\* epsr and depsdr at distance r for the parameters of (itype, jtype)
DielEps(r, itype, jtype) ==
  With(Tanh(RDiv(RSub(r, pair.rme[itype][jtype]), pair.sigmae[itype][jtype])),
       LAMBDA th :
         [epsr |-> RAdd(pair.a_eps, RMul(pair.b_eps, th)),
          depsdr |-> RDiv(RMul(pair.b_eps, RSub(One, RMul(th, th))),
                          pair.sigmae[itype][jtype])])

\* the dielectric kernel with the offset subtracted after the scaling
DielKernelOffsetAfter(EF, qi, qj, rsq, factor_coul, itype, jtype, ecoul) ==
  With(Sqrt(rsq),
       LAMBDA r :
         With(DielEps(r, itype, jtype),
              LAMBDA e :
                [fpair |-> RDiv(RMul(factor_coul,
                                     RDiv(RMul(RMul(RMul(snap.qqrd2e, qi), qj),
                                               RSub(RDiv(RDiv(RMul(pair.eps_s,
                                                                   RAdd(e.epsr, RMul(r, e.depsdr))),
                                                              e.epsr), e.epsr), One)),
                                          rsq)),
                                r),
                 ecoul |-> IF EF # 0
                           THEN RSub(RMul(RDiv(RMul(RMul(RMul(snap.qqrd2e, qi), qj),
                                                    RSub(RDiv(pair.eps_s, e.epsr), One)),
                                               r),
                                          factor_coul),
                                     pair.offset[itype][jtype])
                           ELSE ecoul]))

\* the body of  if (rsq < cutsq[itype][jtype])  of PairCoulDielOMP::eval up
\* to the assignment of ecoul; ecoul keeps its value unless EFLAG
DielKernel(EF, qi, qj, rsq, factor_coul, itype, jtype, ecoul) ==
  With(Sqrt(rsq),
       LAMBDA r :
         With(DielEps(r, itype, jtype),
              LAMBDA e :
                With(RDiv(RMul(RMul(RMul(snap.qqrd2e, qi), qj),
                               RSub(RDiv(RDiv(RMul(pair.eps_s, RAdd(e.epsr, RMul(r, e.depsdr))),
                                              e.epsr), e.epsr), One)),
                          rsq),
                     LAMBDA forcecoul :
                       [fpair |-> RDiv(RMul(factor_coul, forcecoul), r),
                        ecoul |-> IF EF # 0
                                  THEN RMul(RSub(RDiv(RMul(RMul(RMul(snap.qqrd2e, qi), qj),
                                                           RSub(RDiv(pair.eps_s, e.epsr), One)),
                                                      r),
                                                 pair.offset[itype][jtype]),
                                            factor_coul)
                                  ELSE ecoul])))

\* the effect of one pass through the body of the jj loop by thread t:
\* g is the geometry of the entry, jtype the type index used, hit the
\* outcome of the cutoff test and k the fpair and ecoul after the pass;
\* ev_tally_thr adds the energy and the virial to the accumulators of t
Tally(t, g, jtype, hit, k) ==
  /\ \E nxt \in {Seek(thr[t].ii, thr[t].jj + 1, thr[t].iito)} :
       thr' = [thr EXCEPT ![t] =
                 [@ EXCEPT !.i = g.i, !.j = g.j, !.itype = g.itype, !.jtype = jtype,
                           !.factor_coul = g.factor_coul, !.del = g.del, !.rsq = g.rsq,
                           !.fpair = k.fpair, !.ecoul = k.ecoul,
                           !.last = IF hit THEN "hit" ELSE "skip",
                           !.ii = nxt[1], !.jj = nxt[2],
                           !.pc = IF nxt[1] < thr[t].iito THEN "loop" ELSE "barrier"]]
  /\ fthr' = IF hit THEN [fthr EXCEPT ![t] = ApplyPair(@, g.i, g.j, g.del, k.fpair)]
             ELSE fthr
  /\ eng_coul_thr' = IF hit /\ EVFLAG # 0 /\ EFLAG # 0
                     THEN [eng_coul_thr EXCEPT ![t] = RAdd(@, k.ecoul)]
                     ELSE eng_coul_thr
  /\ virial_thr' = IF hit /\ EVFLAG # 0
                   THEN [virial_thr EXCEPT ![t] = VirAdd(@, VirialOf(g.del, k.fpair))]
                   ELSE virial_thr
  /\ visits' = [visits EXCEPT ![<<thr[t].ii, thr[t].jj>>] = @ + 1]
  /\ UNCHANGED <<envVars, phase, error, pair, EVFLAG, EFLAG, NEWTON_PAIR,
                 f, eng_coul, virial, single_out, fp, rst>>

\* one pass through the body of the jj loop of PairCoulDebyeOMP::eval
DebyeInner(t) ==
  /\ style = "debye"
  /\ phase = "eval"
  /\ thr[t].pc = "loop"
  /\ \E g \in {Geometry(thr[t].ii, thr[t].jj)} :
     \E jtype \in {snap.type[g.j]} :
     \E hit \in {CutTest(g.rsq, g.itype, jtype)} :
     \E k \in {IF hit
               THEN DebyeKernel(EFLAG, snap.q[g.i], snap.q[g.j], g.rsq, g.factor_coul,
                                thr[t].ecoul)
               ELSE [fpair |-> thr[t].fpair, ecoul |-> thr[t].ecoul]} :
       Tally(t, g, jtype, hit, k)

\* one pass through the body of the jj loop of PairCoulDielOMP::eval; jtype
\* is never assigned there
DielInner(t) ==
  /\ style = "diel"
  /\ phase = "eval"
  /\ thr[t].pc = "loop"
  /\ \E g \in {Geometry(thr[t].ii, thr[t].jj)} :
     \E jtype \in {thr[t].jtype} :
     \E hit \in {CutTest(g.rsq, g.itype, jtype)} :
     \E k \in {IF hit
               THEN DielKernel(EFLAG, snap.q[g.i], snap.q[g.j], g.rsq, g.factor_coul,
                               g.itype, jtype, thr[t].ecoul)
               ELSE [fpair |-> thr[t].fpair, ecoul |-> thr[t].ecoul]} :
       Tally(t, g, jtype, hit, k)

\* the barrier at the head of force_reduce_thr: every thread has left its loops
BarrierOpen == \A u \in Threads : thr[u].pc # "loop"

\* force_reduce_thr by thread t: behind the barrier, the buffer of t is
\* summed into the global force array
ForceReduce(t) ==
  /\ phase = "eval"
  /\ thr[t].pc = "barrier"
  /\ BarrierOpen
  /\ f' = [a \in Atoms |-> VAdd(f[a], fthr[t][a])]
  /\ thr' = [thr EXCEPT ![t].pc = "joined"]
  /\ UNCHANGED <<envVars, phase, error, pair, EVFLAG, EFLAG, NEWTON_PAIR,
                 fthr, eng_coul_thr, virial_thr, eng_coul, virial, visits,
                 single_out, fp, rst>>

RECURSIVE SumOver(_, _)
SumOver(acc, n) == IF n = 0 THEN Zero ELSE With(SumOver(acc, n - 1), LAMBDA z : RAdd(z, acc[n - 1]))

RECURSIVE VirSumOver(_, _)
VirSumOver(acc, n) == IF n = 0 THEN Vir0 ELSE With(VirSumOver(acc, n - 1), LAMBDA z : VirAdd(z, acc[n - 1]))

\* ev_reduce_thr inside the parallel region: every thread has entered
RegionEntered == \A u \in Threads : thr[u].pc # "idle"

\* the end of the parallel region
RegionJoined == \A u \in Threads : thr[u].pc = "joined"

\* ev_reduce_thr after the parallel region: the accumulators of the threads
\* are summed into the global totals; eval<>() returns
EvReduce ==
  /\ phase = "eval"
  /\ RegionJoined
  /\ eng_coul' = RAdd(eng_coul, SumOver(eng_coul_thr, nthreads))
  /\ virial' = VirAdd(virial, VirSumOver(virial_thr, nthreads))
  /\ thr' = [t \in Threads |-> IdleThread]
  /\ fthr' = [t \in Threads |-> ZeroForce]
  /\ eng_coul_thr' = [t \in Threads |-> Zero]
  /\ virial_thr' = [t \in Threads |-> Vir0]
  /\ visits' = [e \in Entries |-> 0]
  /\ phase' = "ready"
  /\ UNCHANGED <<envVars, error, pair, EVFLAG, EFLAG, NEWTON_PAIR, f,
                 single_out, fp, rst>>

(* ------------------------------------------------------------------ *)
(* single()                                                             *)
(* ------------------------------------------------------------------ *)

\* PairCoulDebyeOMP::single
DebyeSingle(i, j, itype, jtype, rsq, factor_coul) ==
  With2(RInv(rsq), Sqrt(rsq),
        LAMBDA r2inv, r :
          With2(RInv(r), Exp(RMul(RNeg(pair.kappa), r)),
                LAMBDA rinv, screening :
                  [fforce |-> RMul(RMul(factor_coul,
                                        RMul(RMul(RMul(RMul(snap.qqrd2e, snap.q[i]), snap.q[j]),
                                                  screening),
                                             RAdd(pair.kappa, rinv))),
                                   r2inv),
                   energy |-> RMul(factor_coul,
                                   RMul(RMul(RMul(RMul(snap.qqrd2e, snap.q[i]), snap.q[j]), rinv),
                                        screening))]))

\* PairCoulDielOMP::single
DielSingle(i, j, itype, jtype, rsq, factor_coul) ==
  With(Sqrt(rsq),
       LAMBDA r :
         With(DielEps(r, itype, jtype),
              LAMBDA e :
                [fforce |-> RDiv(RMul(factor_coul,
                                      RDiv(RMul(RMul(RMul(snap.qqrd2e, snap.q[i]), snap.q[j]),
                                                RSub(RDiv(RDiv(RMul(pair.eps_s,
                                                                    RAdd(e.epsr, RMul(r, e.depsdr))),
                                                               e.epsr), e.epsr), One)),
                                           rsq)),
                                 r),
                 energy |-> RMul(factor_coul,
                                 RSub(RDiv(RMul(RMul(RMul(snap.qqrd2e, snap.q[i]), snap.q[j]),
                                                RSub(RDiv(pair.eps_s, e.epsr), One)),
                                           r),
                                      pair.offset[itype][jtype]))]))

single(i, j, itype, jtype, rsq, factor_coul) ==
  IF style = "diel" THEN DielSingle(i, j, itype, jtype, rsq, factor_coul)
  ELSE DebyeSingle(i, j, itype, jtype, rsq, factor_coul)

\* a call of single() by the engine for the pair of neighbor entry e, with
\* the types, the squared distance and the scale factor of that pair
SingleCall(e) ==
  /\ phase = "ready"
  /\ \E g \in {Geometry(e[1], e[2])} :
     \E r \in {single(g.i, g.j, g.itype, snap.type[g.j], g.rsq, g.factor_coul)} :
       single_out' = [called |-> TRUE, i |-> g.i, j |-> g.j, itype |-> g.itype,
                      jtype |-> snap.type[g.j], rsq |-> g.rsq,
                      factor_coul |-> g.factor_coul,
                      fforce |-> r.fforce, energy |-> r.energy]
  /\ UNCHANGED <<envVars, phase, error, pair, evalVars, fp, rst>>

(* ------------------------------------------------------------------ *)
(* restart files                                                        *)
(* ------------------------------------------------------------------ *)

\* fwrite(&v, sizeof(kind), 1, fp)
Fwrite(s, kind, v) == Append(s, [kind |-> kind, val |-> v])

\* the value that fread(&v, sizeof(kind), 1, fp) stores at stream position
\* pos; a field of another kind or the end of the stream leaves no value
Fread(s, pos, kind) ==
  IF pos < Len(s) /\ s[pos + 1].kind = kind THEN s[pos + 1].val ELSE Unassigned

\* PairCoulDebyeOMP::write_restart_settings
DebyeWriteRestartSettings(P, s) ==
  Fwrite(Fwrite(Fwrite(Fwrite(s, "double", P.cut_global), "double", P.kappa),
                "int", P.offset_flag), "int", P.mix_flag)

\* PairCoulDebyeOMP::read_restart_settings into object R
DebyeReadRestartSettings(R, s) ==
  [R EXCEPT !.cut_global = Fread(s, R.pos, "double"),
            !.kappa = Fread(s, R.pos + 1, "double"),
            !.offset_flag = Fread(s, R.pos + 2, "int"),
            !.mix_flag = Fread(s, R.pos + 3, "int"),
            !.pos = R.pos + 4]

\* PairCoulDielOMP::write_restart_settings
DielWriteRestartSettings(P, s) ==
  Fwrite(Fwrite(Fwrite(s, "double", P.cut_global), "int", P.offset_flag), "int", P.mix_flag)

\* PairCoulDielOMP::read_restart_settings into object R
DielReadRestartSettings(R, s) ==
  [R EXCEPT !.cut_global = Fread(s, R.pos, "double"),
            !.offset_flag = Fread(s, R.pos + 1, "int"),
            !.mix_flag = Fread(s, R.pos + 2, "int"),
            !.pos = R.pos + 3]

\* the body of the loops of PairCoulDielOMP::write_restart for type pair (i, j)
DielWriteOne(P, s, i, j) ==
  With(Fwrite(s, "int", P.setflag[<<i, j>>]),
       LAMBDA s1 : IF P.setflag[<<i, j>>] # 0
                   THEN Fwrite(Fwrite(Fwrite(s1, "double", P.rme[i][j]),
                                      "double", P.sigmae[i][j]), "double", P.cut[i][j])
                   ELSE s1)

RECURSIVE DielWritePairs(_, _, _)
DielWritePairs(P, s, k) ==
  IF k > Len(PairSeq) THEN s
  ELSE With(DielWriteOne(P, s, PairSeq[k][1], PairSeq[k][2]),
            LAMBDA s1 : DielWritePairs(P, s1, k + 1))

\* PairCoulDielOMP::write_restart
DielWriteRestart(P, s) ==
  With(DielWriteRestartSettings(P, s), LAMBDA s0 : DielWritePairs(P, s0, 1))

\* the body of the loops of PairCoulDielOMP::read_restart for type pair
\* (i, j): setflag[i][j] is the value that allocate() has just stored
DielReadOne(R, s, i, j) ==
  IF R.setflag[<<i, j>>] # 0
  THEN [R EXCEPT !.rme[i][j] = Fread(s, R.pos, "double"),
                 !.sigmae[i][j] = Fread(s, R.pos + 1, "double"),
                 !.cut[i][j] = Fread(s, R.pos + 2, "double"),
                 !.pos = R.pos + 3]
  ELSE R

RECURSIVE DielReadPairs(_, _, _)
DielReadPairs(R, s, k) ==
  IF k > Len(PairSeq) THEN R
  ELSE With(DielReadOne(R, s, PairSeq[k][1], PairSeq[k][2]),
            LAMBDA R1 : DielReadPairs(R1, s, k + 1))

\* PairCoulDielOMP::read_restart into object R
DielReadRestart(R, s) ==
  With(allocate(DielReadRestartSettings(R, s)), LAMBDA R0 : DielReadPairs(R0, s, 1))

\* the pair object that the restart reader creates, with its stream position
FreshObject == [NewPair(0, 0) EXCEPT !.allocated = 0] @@ [pos |-> 0]

\* the restart file is written: write_restart of the dielectric style,
\* write_restart_settings of the Debye style
WriteRestart ==
  /\ phase = "ready"
  /\ fp' = IF style = "diel" THEN DielWriteRestart(pair, <<>>)
           ELSE DebyeWriteRestartSettings(pair, <<>>)
  /\ phase' = "written"
  /\ UNCHANGED <<envVars, error, pair, evalVars, single_out, rst>>

\* the restart file is read into a new pair object
ReadRestart ==
  /\ phase = "written"
  /\ rst' = IF style = "diel" THEN DielReadRestart(FreshObject, fp)
            ELSE DebyeReadRestartSettings(FreshObject, fp)
  /\ phase' = "restarted"
  /\ UNCHANGED <<envVars, error, pair, evalVars, single_out, fp>>

(* ------------------------------------------------------------------ *)
(* the trajectory writer DumpH5MD                                       *)
(* ------------------------------------------------------------------ *)

MaxAtoms == 2

MaxChunk == 3

MaxFrames == 2

MaxStep == 2

\* the writer of a run that has no dump
NoDump == [status |-> "none"]

\* the keyword values of a dump h5md command after parsing: every_image is
\* every_position when the image keyword is given, a value of -1 means that
\* the keyword is absent
DumpArgs ==
  {[every_dump |-> 1, every_position |-> 1, every_image |-> 1, every_velocity |-> -1,
    every_force |-> -1, every_species |-> 1],
   [every_dump |-> 1, every_position |-> 2, every_image |-> -1, every_velocity |-> -1,
    every_force |-> -1, every_species |-> -1],
   [every_dump |-> 2, every_position |-> -1, every_image |-> -1, every_velocity |-> 1,
    every_force |-> 1, every_species |-> -1]}

\* memory->create(array, size) if every > 0: the elements hold no value yet
\* (-1 here); hi is one more than the largest index written so far
DumpArray(every, size) ==
  [a |-> IF every > 0 THEN [k \in 0 .. (size - 1) |-> -1] ELSE [k \in {} |-> -1],
   size |-> IF every > 0 THEN size ELSE 0,
   hi |-> 0]

\* the end of the constructor: natoms = group->count(igroup), the arrays,
\* openfile() (the datasets of the file are empty), ntotal = 0
DumpH5MD(arg, dim, count) ==
  [status |-> "ok",
   every_dump |-> arg.every_dump,
   every_position |-> arg.every_position, every_image |-> arg.every_image,
   every_velocity |-> arg.every_velocity, every_force |-> arg.every_force,
   every_species |-> arg.every_species,
   dimension |-> dim,
   natoms |-> count,
   dump_position |-> DumpArray(arg.every_position, dim * count),
   dump_image |-> DumpArray(arg.every_image, dim * count),
   dump_velocity |-> DumpArray(arg.every_velocity, dim * count),
   dump_force |-> DumpArray(arg.every_force, dim * count),
   dump_species |-> DumpArray(arg.every_species, count),
   file |-> [position |-> 0, box_edges |-> 0, image |-> 0, velocity |-> 0,
             force |-> 0, species |-> 0],
   nframes |-> 0,
   ntotal |-> 0]

\* array[k] = mybuf[m]: inside the array the element is assigned, beyond its
\* end the write lands outside the array
Store(arr, k, m) ==
  IF k < arr.size
  THEN [arr EXCEPT !.a[k] = m, !.hi = Max(@, k + 1)]
  ELSE [arr EXCEPT !.hi = Max(@, k + 1)]

\* for (j = 0; j < dim; j++) array[k++] = mybuf[m++], from the j-th pass on
RECURSIVE StoreVec(_, _, _, _, _)
StoreVec(arr, k, m, j, dim) ==
  IF ~(j < dim) THEN arr
  ELSE With(Store(arr, k + j, m + j), LAMBDA b : StoreVec(b, k, m, j + 1, dim))

\* the body of the loop over i of write_data for the atom at position
\* ntotal: D is the object, m the read position in mybuf
CopyAtom(D, m) ==
  LET dim == D.dimension
      pos == D.every_position > 0
      img == pos /\ D.every_image > 0
      vel == D.every_velocity > 0
      frc == D.every_force > 0
      spc == D.every_species > 0
      m1 == IF pos THEN m + dim ELSE m
      m2 == IF img THEN m1 + dim ELSE m1
      m3 == IF vel THEN m2 + dim ELSE m2
      m4 == IF frc THEN m3 + dim ELSE m3
      m5 == IF spc THEN m4 + 1 ELSE m4
  IN [D |-> [D EXCEPT
               !.dump_position = IF pos THEN StoreVec(@, dim * D.ntotal, m, 0, dim) ELSE @,
               !.dump_image = IF img THEN StoreVec(@, dim * D.ntotal, m1, 0, dim) ELSE @,
               !.dump_velocity = IF vel THEN StoreVec(@, dim * D.ntotal, m2, 0, dim) ELSE @,
               !.dump_force = IF frc THEN StoreVec(@, dim * D.ntotal, m3, 0, dim) ELSE @,
               !.dump_species = IF spc THEN Store(@, D.ntotal, m4) ELSE @,
               !.ntotal = @ + 1],
      m |-> m5]

\* for (i = 0; i < n; i++) { ...; ntotal++; } from the i-th pass on
RECURSIVE CopyAtoms(_, _, _, _)
CopyAtoms(D, m, i, n) ==
  IF ~(i < n) THEN D
  ELSE With(CopyAtom(D, m), LAMBDA r : CopyAtoms(r.D, r.m, i + 1, n))

\* h5md_append(dataset, ...): the dataset gains one frame
h5md_append(file, name) ==
  CASE name = "position" -> [file EXCEPT !.position = @ + 1]
    [] name = "box_edges" -> [file EXCEPT !.box_edges = @ + 1]
    [] name = "image" -> [file EXCEPT !.image = @ + 1]
    [] name = "velocity" -> [file EXCEPT !.velocity = @ + 1]
    [] name = "force" -> [file EXCEPT !.force = @ + 1]
    [] name = "species" -> [file EXCEPT !.species = @ + 1]

AppendIf(cond, file, name) == IF cond THEN h5md_append(file, name) ELSE file

\* DumpH5MD::write_frame at time step local_step
write_frame(D, local_step) ==
  LET due(every) == every > 0 /\ local_step % (every * D.every_dump) = 0
      f1 == IF D.every_position > 0
            THEN IF due(D.every_position)
                 THEN AppendIf(D.every_image > 0,
                               h5md_append(h5md_append(D.file, "position"), "box_edges"), "image")
                 ELSE D.file
            ELSE h5md_append(D.file, "box_edges")
      f2 == AppendIf(due(D.every_velocity), f1, "velocity")
      f3 == AppendIf(due(D.every_force), f2, "force")
      f4 == AppendIf(due(D.every_species), f3, "species")
  IN [D EXCEPT !.file = f4, !.nframes = @ + 1]

\* a write of the loop has landed beyond the end of an array
Overran(D) ==
  \/ D.dump_position.hi > D.dump_position.size
  \/ D.dump_image.hi > D.dump_image.size
  \/ D.dump_velocity.hi > D.dump_velocity.size
  \/ D.dump_force.hi > D.dump_force.size
  \/ D.dump_species.hi > D.dump_species.size

\* the variables of the pair styles
pairVars == <<style, newton_pair, nthreads, snapshot, phase, error, pair, restVars>>

\* DumpH5MD::write_data(n, mybuf) at time step ntimestep. A loop that has
\* written beyond an array has undefined behaviour: the call goes on as
\* written with the memory behind the array overwritten, or the overwritten
\* memory holds ntotal, or the process is ended; the run is not followed
\* further
WriteData(n, ntimestep) ==
  /\ dump.status = "ok"
  /\ dump.nframes < MaxFrames
  /\ \E R \in {CopyAtoms(dump, 0, 0, n)} :
       IF Overran(R)
       THEN \/ dump' = [R EXCEPT !.status = "overrun"]
            \/ \E v \in 0 .. R.natoms : dump' = [R EXCEPT !.status = "overrun", !.ntotal = v]
            \/ dump' = [R EXCEPT !.status = "crashed"]
       ELSE IF R.ntotal = R.natoms
            THEN \E W \in {write_frame(R, ntimestep)} : dump' = [W EXCEPT !.ntotal = 0]
            ELSE dump' = R
  /\ UNCHANGED pairVars

(* ------------------------------------------------------------------ *)
(* the runs                                                             *)
(* ------------------------------------------------------------------ *)

\* offset_flag and mix_flag as pair_modify leaves them
ModifyChoices == {<<0, 1>>, <<1, 2>>}

InitWith(S) ==
  /\ style \in {"debye", "diel"}
  /\ newton_pair \in {0, 1}
  /\ nthreads \in 1 .. MaxThreads
  /\ snapshot \in S
  /\ phase = "new"
  /\ error = ""
  /\ \E m \in ModifyChoices : pair = NewPair(m[1], m[2])
  /\ EVFLAG = 0 /\ EFLAG = 0 /\ NEWTON_PAIR = 0
  /\ thr = [t \in Threads |-> IdleThread]
  /\ fthr = [t \in Threads |-> ZeroForce]
  /\ eng_coul_thr = [t \in Threads |-> Zero]
  /\ virial_thr = [t \in Threads |-> Vir0]
  /\ f = snap.f
  /\ eng_coul = Zero
  /\ virial = Vir0
  /\ visits = [e \in Entries |-> 0]
  /\ single_out = [called |-> FALSE]
  /\ fp = <<>>
  /\ rst = FreshObject

Init == InitWith(Snapshots) /\ dump = NoDump

InitDegenerate == InitWith({"D"}) /\ dump = NoDump

\* a run with a dump h5md command: the writer as its constructor leaves it,
\* for 2 and 3 dimensions and groups of 0 .. MaxAtoms atoms
InitDump ==
  /\ InitWith({"A"})
  /\ style = "debye" /\ newton_pair = 0 /\ nthreads = 1 /\ pair.offset_flag = 0
  /\ \E arg \in DumpArgs, dim \in {2, 3}, count \in 0 .. MaxAtoms :
       dump = DumpH5MD(arg, dim, count)

\* the engine hands the chunks of a snapshot to write_data
DumpNext == \E n \in 0 .. MaxChunk, ntimestep \in 0 .. MaxStep : WriteData(n, ntimestep)

Next ==
  \/ \E arg \in DebyeSettingsArgs : DebyeSettings(arg)
  \/ \E arg \in DielSettingsArgs : DielSettings(arg)
  \/ \E a \in CutCoeffArgs : CutCoeff(a)
  \/ \E a \in DielCoeffArgs : DielCoeff(a)
  \/ PairInit
  \/ \E eflag \in {0, 1}, vflag \in {0, 1} : Compute(eflag, vflag)
  \/ \E t \in Threads : DebyeInner(t)
  \/ \E t \in Threads : DielInner(t)
  \/ \E t \in Threads : ForceReduce(t)
  \/ EvReduce
  \/ \E e \in Entries : SingleCall(e)
  \/ WriteRestart
  \/ ReadRestart

\* runs on the snapshots of the engine, which never lists a pair at distance zero
Spec == Init /\ [][Next]_vars

\* runs on a neighbor list that holds a pair of coincident particles
SpecDegenerate == InitDegenerate /\ [][Next]_vars

\* runs of the trajectory writer
SpecDump == InitDump /\ [][DumpNext]_vars

(* ------------------------------------------------------------------ *)
(* the properties                                                       *)
(* ------------------------------------------------------------------ *)

\* thread t passes through the body of the jj loop in this step
LoopStep(t) == phase = "eval" /\ thr[t].pc = "loop" /\ thr'[t] # thr[t]

\* C1: in eval() of both styles, for a pair (i, j) that passes the cutoff
\* test the vector del*fpair is added to slot i of the buffer of the thread,
\* and its exact negation is added to slot j if and only if NEWTON_PAIR is on
\* or j < nlocal; the two contributions then sum to zero, otherwise slot j is
\* not written; no other slot and no other buffer changes
C1_MirroredWrite ==
  [][\A t \in Threads :
       (LoopStep(t) /\ thr'[t].last = "hit") =>
         LET L == thr'[t]
             df == VScale(L.del, L.fpair)
             mirrored == NEWTON_PAIR # 0 \/ L.j < snap.nlocal
         IN /\ L.i = snap.ilist[thr[t].ii]
            /\ L.j = Decode(snap.firstneigh[L.i][thr[t].jj + 1]).j
            /\ L.del = VSub(snap.x[L.i], snap.x[L.j])
            /\ fthr'[t][L.i] = VAdd(fthr[t][L.i], df)
            /\ mirrored =>
                 /\ fthr'[t][L.j] = VSub(fthr[t][L.j], df)
                 /\ VAdd(VSub(fthr'[t][L.i], fthr[t][L.i]),
                         VSub(fthr'[t][L.j], fthr[t][L.j])) = Vec0
            /\ ~mirrored => fthr'[t][L.j] = fthr[t][L.j]
            /\ \A a \in Atoms \ {L.i, L.j} : fthr'[t][a] = fthr[t][a]
            /\ \A u \in Threads \ {t} : fthr'[u] = fthr[u]]_vars

\* a pair with a ghost partner has passed the cutoff test with NEWTON_PAIR
\* off: the owner's slot holds a force, the ghost's slot holds none
C1_Witness ==
  \E t \in Threads :
    /\ phase = "eval"
    /\ thr[t].last = "hit"
    /\ NEWTON_PAIR = 0
    /\ thr[t].j >= snap.nlocal
    /\ fthr[t][thr[t].i] # Vec0
    /\ fthr[t][thr[t].j] = Vec0

\* the thread whose range holds position ii of the owner list
OwnerThread(ii) == CHOOSE t \in Threads : thr[t].iifrom <= ii /\ ii < thr[t].iito

\* the type index with which the pair of entry e is evaluated: type[j] in
\* the Debye style, the content of jtype of the evaluating thread in the
\* dielectric style
UsedJtype(e) ==
  IF style = "diel" THEN thr[OwnerThread(e[1])].jtype
  ELSE snap.type[Geometry(e[1], e[2]).j]

\* the force that the pair of entry e contributes to particle a
Contribution(e, a) ==
  LET g == Geometry(e[1], e[2])
      jt == UsedJtype(e)
      k == IF style = "diel"
           THEN DielKernel(0, snap.q[g.i], snap.q[g.j], g.rsq, g.factor_coul, g.itype, jt, Zero)
           ELSE DebyeKernel(0, snap.q[g.i], snap.q[g.j], g.rsq, g.factor_coul, Zero)
      df == VScale(g.del, k.fpair)
  IN IF ~CutTest(g.rsq, g.itype, jt) THEN Vec0
     ELSE IF a = g.i THEN df
     ELSE IF a = g.j /\ (NEWTON_PAIR # 0 \/ g.j < snap.nlocal) THEN VSub(Vec0, df)
     ELSE Vec0

RECURSIVE ContributionSum(_, _)
ContributionSum(a, S) ==
  IF S = {} THEN Vec0
  ELSE LET e == CHOOSE x \in S : TRUE
       IN VAdd(Contribution(e, a), ContributionSum(a, S \ {e}))

C3_ReductionAfterBarrier ==
  [][phase = "eval" =>
       /\ (\E u \in Threads : thr[u].pc = "loop") =>
            /\ f' = f /\ eng_coul' = eng_coul /\ virial' = virial
            /\ \A t \in Threads :
                 thr[t].pc # "loop" => thr'[t] = thr[t]
            /\ \A t \in Threads :
                 thr'[t] = thr[t] =>
                   /\ fthr'[t] = fthr[t]
                   /\ eng_coul_thr'[t] = eng_coul_thr[t]
                   /\ virial_thr'[t] = virial_thr[t]
       /\ f' # f =>
            \A u \in Threads : thr[u].pc \in {"barrier", "joined"} /\ thr[u].ii = thr[u].iito
       /\ (eng_coul' # eng_coul \/ virial' # virial) =>
            \A u \in Threads : thr[u].pc = "joined"]_vars

\* a thread waits at the barrier with a force in its buffer while another
\* thread is still inside its loops
C3_Witness ==
  /\ phase = "eval"
  /\ \E t, u \in Threads :
       /\ thr[t].pc = "barrier" /\ fthr[t] # ZeroForce
       /\ thr[u].pc = "loop"
  /\ f = snap.f

\* the force buffer of a thread of eval<0,0,NEWTON_PAIR> after its passes
\* from loop position at to the end of its range, jt0 being the content of
\* its jtype on entry
RECURSIVE Replay(_, _, _, _)
Replay(buf, at, iito, jt0) ==
  IF ~(at[1] < iito) THEN buf
  ELSE LET g == Geometry(at[1], at[2])
           jt == IF style = "diel" THEN jt0 ELSE snap.type[g.j]
           k == IF style = "diel"
                THEN DielKernel(0, snap.q[g.i], snap.q[g.j], g.rsq, g.factor_coul, g.itype, jt, Zero)
                ELSE DebyeKernel(0, snap.q[g.i], snap.q[g.j], g.rsq, g.factor_coul, Zero)
       IN Replay(IF CutTest(g.rsq, g.itype, jt)
                 THEN ApplyPair(buf, g.i, g.j, g.del, k.fpair) ELSE buf,
                 Seek(at[1], at[2] + 1, iito), iito, jt0)

RECURSIVE ReduceFrom(_, _, _)
ReduceFrom(farr, t, g0) ==
  IF t = nthreads THEN farr
  ELSE LET R == loop_setup_thr(t, snap.inum, nthreads)
           buf == Replay(ZeroForce, Seek(R.iifrom, 0, R.iito), R.iito, g0[t])
       IN ReduceFrom([a \in Atoms |-> VAdd(farr[a], buf[a])], t + 1, g0)

\* the force array that compute(0, 0) produces on the same snapshot,
\* neighbor list, parameters and NEWTON_PAIR when the threads find g0 in jtype
EnergyOffForce(g0) == ReduceFrom(snap.f, 0, g0)

\* what a thread can find in a local that was declared without a value
LocalContents == [Threads -> IF style = "diel" THEN Types ELSE {0}]

\* C4: compute(eflag, vflag) with energy or virial accounting on produces
\* the force array that compute(0, 0) produces for the same snapshot,
\* neighbor list, parameters and NEWTON_PAIR
C4_SameForceForAllFlags ==
  (phase = "eval" /\ RegionJoined /\ EVFLAG # 0) =>
    \A g0 \in LocalContents : f = EnergyOffForce(g0)

\* the force factor and the energy of the style's formula for charges qi
\* and qj at squared distance rsq with the parameters of (itype, jtype),
\* without exclusion scaling: the Debye force qqrd2e qi qj exp(-kappa r)
\* (kappa + 1/r) / r^2 and energy qqrd2e qi qj exp(-kappa r) / r; the
\* dielectric force qqrd2e qi qj (eps_s (epsr + r depsdr) / epsr^2 - 1) / r^3
\* and energy qqrd2e qi qj (eps_s / epsr - 1) / r - offset
Unscaled(qi, qj, rsq, itype, jtype) ==
  LET r == Sqrt(rsq)
      qq == RMul(snap.qqrd2e, RMul(qi, qj))
      th == Tanh(RDiv(RSub(r, pair.rme[itype][jtype]), pair.sigmae[itype][jtype]))
      epsr == RAdd(pair.a_eps, RMul(pair.b_eps, th))
      depsdr == RDiv(RMul(pair.b_eps, RSub(One, RMul(th, th))), pair.sigmae[itype][jtype])
      screening == Exp(RNeg(RMul(pair.kappa, r)))
  IN IF style = "diel"
     THEN [force |-> RDiv(RMul(qq, RSub(RDiv(RMul(pair.eps_s, RAdd(epsr, RMul(r, depsdr))),
                                             RMul(epsr, epsr)), One)),
                          RMul(rsq, r)),
           energy |-> RSub(RDiv(RMul(qq, RSub(RDiv(pair.eps_s, epsr), One)), r),
                           pair.offset[itype][jtype])]
     ELSE [force |-> RDiv(RMul(RMul(qq, screening), RAdd(pair.kappa, RInv(r))), rsq),
           energy |-> RDiv(RMul(qq, screening), r)]

\* C5: in eval() and in single() of both styles the force factor and the
\* energy of a pair are the exclusion scale factor times the unscaled force
\* and (offset-shifted) energy of the formula: with scale factor 0 the pair
\* adds nothing to the force buffer and to the energy accumulator, with
\* scale factor 1 it adds the unscaled force and energy
C5_ScaleFactor ==
  [][/\ \A t \in Threads :
          (LoopStep(t) /\ thr'[t].last = "hit") =>
            LET L == thr'[t]
                U == Unscaled(snap.q[L.i], snap.q[L.j], L.rsq, L.itype, L.jtype)
                tallied == EVFLAG # 0 /\ EFLAG # 0
            IN /\ L.fpair = RMul(L.factor_coul, U.force)
               /\ EFLAG # 0 => L.ecoul = RMul(L.factor_coul, U.energy)
               /\ L.factor_coul = Zero =>
                    /\ L.fpair = Zero
                    /\ fthr' = fthr
                    /\ EFLAG # 0 => L.ecoul = Zero
                    /\ eng_coul_thr' = eng_coul_thr
               /\ L.factor_coul = One =>
                    /\ L.fpair = U.force
                    /\ fthr'[t][L.i] = VAdd(fthr[t][L.i], VScale(L.del, U.force))
                    /\ EFLAG # 0 => L.ecoul = U.energy
                    /\ tallied => eng_coul_thr'[t] = RAdd(eng_coul_thr[t], U.energy)
     /\ single_out'.called =>
          LET S == single_out'
              U == Unscaled(snap.q[S.i], snap.q[S.j], S.rsq, S.itype, S.jtype)
          IN /\ S.fforce = RMul(S.factor_coul, U.force)
             /\ S.energy = RMul(S.factor_coul, U.energy)
             /\ S.factor_coul = Zero => S.fforce = Zero /\ S.energy = Zero
             /\ S.factor_coul = One => S.fforce = U.force /\ S.energy = U.energy]_vars

\* a pair with scale factor 0 whose unscaled force and energy are not zero
\* has passed the cutoff test with energy accounting on
C5_Witness ==
  \E t \in Threads :
    /\ phase = "eval" /\ thr[t].last = "hit" /\ EFLAG # 0
    /\ thr[t].factor_coul = Zero
    /\ Unscaled(snap.q[thr[t].i], snap.q[thr[t].j], thr[t].rsq,
                thr[t].itype, thr[t].jtype).energy # Zero
    /\ Unscaled(snap.q[thr[t].i], snap.q[thr[t].j], thr[t].rsq,
                thr[t].itype, thr[t].jtype).force # Zero

\* C6: every neighbor pair (i, j) of eval() is tested against the squared
\* cutoff of its own type pair and evaluated with the parameters of that
\* type pair: the type index used is type[j] of the decoded partner, and the
\* pair is accumulated exactly when rsq < cutsq[type[i]][type[j]]
C6_OwnTypePair ==
  \A t \in Threads :
    (phase = "eval" /\ thr[t].last # "none") =>
      /\ thr[t].itype = snap.type[thr[t].i]
      /\ thr[t].jtype = snap.type[thr[t].j]
      /\ (thr[t].last = "hit") =
           RLt(thr[t].rsq, pair.cutsq[snap.type[thr[t].i]][snap.type[thr[t].j]])

UnsetPairs == {ij \in TypePairs : pair.setflag[ij] = 0}

\* C7: in the dielectric style the setup succeeds, and eval() runs, only
\* with every type pair set: init_one of a pair whose set flag is 0 ends the
\* run with the error message of init_one, and an unset pair is left without
\* derived cutoff, squared cutoff or offset
C7_UnsetPairIsFatal ==
  style = "diel" =>
    /\ phase \in {"ready", "eval", "written", "restarted"} =>
         pair.allocated = 1 /\ UnsetPairs = {}
    /\ error = "for pair style coul/diel, parameters need to be set explicitly for all pairs." =>
         /\ phase = "error"
         /\ UnsetPairs # {}
         /\ f = snap.f
    /\ pair.allocated = 1 =>
         \A ij \in UnsetPairs :
           /\ pair.cut[ij[1]][ij[2]] = Unassigned
           /\ pair.cutsq[ij[1]][ij[2]] = Unassigned
           /\ pair.offset[ij[1]][ij[2]] = Unassigned

\* init_one has met an unset type pair after another pair had been set
C7_Witness ==
  /\ style = "diel"
  /\ error = "for pair style coul/diel, parameters need to be set explicitly for all pairs."
  /\ UnsetPairs # {}
  /\ UnsetPairs # TypePairs

\* C8: a neighbor pair whose squared distance is not positive is skipped by
\* eval(), and the force buffers, the energy and the virial accumulators
\* hold finite values only
C8_ZeroDistanceRejected ==
  \A t \in Threads :
    phase = "eval" =>
      /\ (thr[t].last # "none" /\ ~RLt(Zero, thr[t].rsq)) => thr[t].last = "skip"
      /\ \A a \in Atoms : VFinite(fthr[t][a])
      /\ IsFinite(eng_coul_thr[t])
      /\ \A k \in 1 .. 6 : IsFinite(virial_thr[t][k])

\* C9: the pair object read from a written restart stream has the settings
\* of the writer: cut_global, offset_flag, mix_flag, and kappa in the Debye
\* style; in the dielectric style also the set flag of every type pair
\* i <= j and rme, sigmae and cut of every set pair, and the reader has
\* consumed every field of the stream
C9_RestartRoundTrip ==
  phase = "restarted" =>
    /\ rst.cut_global = pair.cut_global
    /\ rst.offset_flag = pair.offset_flag
    /\ rst.mix_flag = pair.mix_flag
    /\ style = "debye" => rst.kappa = pair.kappa
    /\ rst.pos = Len(fp)
    /\ style = "diel" =>
         \A ij \in TypePairs :
           /\ rst.setflag[ij] = pair.setflag[ij]
           /\ pair.setflag[ij] # 0 =>
                /\ rst.rme[ij[1]][ij[2]] = pair.rme[ij[1]][ij[2]]
                /\ rst.sigmae[ij[1]][ij[2]] = pair.sigmae[ij[1]][ij[2]]
                /\ rst.cut[ij[1]][ij[2]] = pair.cut[ij[1]][ij[2]]

\* C10: single(i, j, type[i], type[j], rsq, factor_coul) returns the force
\* factor and the energy that eval() with energy accounting on has computed
\* as fpair and ecoul for the pair (i, j)
C10_SingleEqualsEval ==
  \A t \in Threads :
    (phase = "eval" /\ thr[t].last = "hit" /\ EFLAG # 0) =>
      single(thr[t].i, thr[t].j, snap.type[thr[t].i], snap.type[thr[t].j],
             thr[t].rsq, thr[t].factor_coul)
        = [fforce |-> thr[t].fpair, energy |-> thr[t].ecoul]

\* the table entries at (i, j) and (j, i) agree
TableSymmetric(P) ==
  \A i \in Types : \A j \in Types :
    /\ P.sigmae[j][i] = P.sigmae[i][j]
    /\ P.rme[j][i] = P.rme[i][j]
    /\ P.offset[j][i] = P.offset[i][j]
    /\ P.cut[j][i] = P.cut[i][j]

\* C11: once coeff() calls and init_one(i,j) for every type pair i <= j have
\* set up the dielectric table, sigmae, rme, offset and cut at (j,i) equal
\* those at (i,j) and are assigned values, and no step of compute()/eval(),
\* single() or write_restart() changes the table
C11_TableSymmetric ==
  [][style = "diel" =>
       /\ phase' \in {"ready", "eval", "written", "restarted"} =>
            /\ TableSymmetric(pair')
            /\ \A i \in Types : \A j \in Types :
                 /\ IsFinite(pair'.sigmae[i][j]) /\ IsFinite(pair'.rme[i][j])
                 /\ IsFinite(pair'.offset[i][j]) /\ IsFinite(pair'.cut[i][j])
       /\ phase \in {"ready", "eval"} => pair' = pair]_vars

\* an eval() with forces written has ended on a table whose entries differ
\* between type pairs and whose offsets are not zero
C11_Witness ==
  /\ style = "diel"
  /\ phase = "ready"
  /\ f # snap.f
  /\ pair.rme[1][2] # pair.rme[1][1]
  /\ pair.cut[2][1] # pair.cut[1][1]
  /\ pair.offset[2][1] # Zero

\* the pair potential of the style's formula at separation r for charges
\* qi, qj and the parameters of the type pair (itype, jtype)
Potential(qi, qj, r, itype, jtype) ==
  LET qq == RMul(snap.qqrd2e, RMul(qi, qj))
  IN IF style = "diel"
     THEN With(RAdd(pair.a_eps,
                    RMul(pair.b_eps,
                         Tanh(RDiv(RSub(r, pair.rme[itype][jtype]), pair.sigmae[itype][jtype])))),
               LAMBDA epsr : RDiv(RMul(qq, RSub(RDiv(pair.eps_s, epsr), One)), r))
     ELSE RDiv(RMul(qq, Exp(RNeg(RMul(pair.kappa, r)))), r)

\* the energy of a pair at separation r: the potential, shifted by its value
\* at the cutoff radius of the type pair when offset mode is on
ShiftedEnergy(qi, qj, r, itype, jtype) ==
  IF pair.offset_flag # 0
  THEN RSub(Potential(qi, qj, r, itype, jtype),
            Potential(qi, qj, pair.cut[itype][jtype], itype, jtype))
  ELSE Potential(qi, qj, r, itype, jtype)

\* C12: with energy accounting on, the energy eval() computes for a pair
\* within the cutoff is the scale factor times the pair potential of the
\* style's formula, minus (in offset mode) the value of that potential at the
\* cutoff radius of (type(i), type(j)); the offset table of the dielectric
\* style is 0 when offset mode is off
C12_EnergyOffset ==
  /\ \A t \in Threads :
       (phase = "eval" /\ thr[t].last = "hit" /\ EFLAG # 0) =>
         thr[t].ecoul =
           RMul(thr[t].factor_coul,
                ShiftedEnergy(snap.q[thr[t].i], snap.q[thr[t].j], Sqrt(thr[t].rsq),
                              snap.type[thr[t].i], snap.type[thr[t].j]))
  /\ (style = "diel" /\ phase \in {"ready", "eval"} /\ pair.offset_flag = 0) =>
       \A i \in Types : \A j \in Types : pair.offset[i][j] = Zero

\* the values a neighbor entry can hold: a particle index, plus nall times
\* the selector of an exclusion scale factor
Encodings == {a + s * nall : a \in Atoms, s \in DOMAIN snap.special_coul}

\* C13: decoding a neighbor entry e in eval() of both styles gives partner e
\* and scale factor exactly 1 if e < nall, and partner e mod nall and scale
\* factor special_coul[e div nall] otherwise; the partner is an index in
\* [0, nall), inside x, q, type and the force buffer of the thread, and the
\* neighbor list is not changed
C13_DecodeInBounds ==
  [][/\ snapshot' = snapshot
     /\ nall >= 1
     /\ \A e \in Encodings :
          /\ e < nall => Decode(e) = [j |-> e, factor_coul |-> One]
          /\ e >= nall => Decode(e) = [j |-> e % nall,
                                       factor_coul |-> snap.special_coul[e \div nall]]
          /\ Decode(e).j >= 0 /\ Decode(e).j < nall
     /\ \A t \in Threads :
          LoopStep(t) =>
            LET e == snap.firstneigh[snap.ilist[thr[t].ii]][thr[t].jj + 1]
                L == thr'[t]
            IN /\ e \in Encodings
               /\ e < nall => (L.j = e /\ L.factor_coul = One)
               /\ e >= nall => (L.j = e % nall /\ L.factor_coul = snap.special_coul[e \div nall])
               /\ L.j \in DOMAIN snap.x /\ L.j \in DOMAIN snap.q /\ L.j \in DOMAIN snap.type
               /\ L.j \in DOMAIN fthr[t] /\ DOMAIN fthr'[t] = 0 .. (nall - 1)]_vars

\* a thread has decoded an entry that carries a selector: the partner is an
\* owned particle and the scale factor is neither 1 nor 0
C13_Witness ==
  \E t \in Threads :
    /\ phase = "eval"
    /\ thr[t].last # "none"
    /\ thr[t].j < snap.nlocal
    /\ thr[t].factor_coul = Rat(1, 2)
    /\ \E jj \in 1 .. Len(snap.firstneigh[thr[t].i]) :
         snap.firstneigh[thr[t].i][jj] = thr[t].j + 2 * nall

\* what the claim requires of a settings() call with cutoff c: pairs i <= j
\* whose set flag is on have cut[i][j] = c afterwards, the others keep
\* their cut
CutsReset(c) ==
  /\ pair'.cut_global = c
  /\ pair.allocated # 0 =>
       \A ij \in TypePairs :
         pair'.cut[ij[1]][ij[2]] =
           IF pair.setflag[ij] # 0 THEN c ELSE pair.cut[ij[1]][ij[2]]

\* C14: a settings() call with the right number of arguments (2 in the
\* Debye style, 1 in the dielectric style) stores the new global cutoff and,
\* once the arrays are allocated, sets cut[i][j] to it for every type pair
\* i <= j whose set flag is on and leaves the cut of the other pairs as it
\* was; a call with another number of arguments is a fatal error and leaves
\* the pair object unchanged
C14_SettingsResetsCuts ==
  [][/\ \A arg \in DebyeSettingsArgs :
          DebyeSettings(arg) =>
            IF arg.narg # 2
            THEN pair' = pair /\ phase' = "error" /\ error' = "Illegal pair_style command"
            ELSE CutsReset(arg.cut_global) /\ pair'.kappa = arg.kappa
     /\ \A arg \in DielSettingsArgs :
          DielSettings(arg) =>
            IF arg.narg # 1
            THEN pair' = pair /\ phase' = "error" /\ error' = "Illegal pair_style command"
            ELSE CutsReset(arg.cut_global)]_vars

\* the arrays of the writer with the number of values each holds per atom
DumpArrays(D) ==
  {<<D.dump_position, D.dimension>>, <<D.dump_image, D.dimension>>,
   <<D.dump_velocity, D.dimension>>, <<D.dump_force, D.dimension>>,
   <<D.dump_species, 1>>}

\* C15: after every write_data(n, buf) call 0 <= ntotal < natoms; the call
\* invokes write_frame(), once, exactly when it brings the number of
\* buffered atoms to natoms, and then leaves ntotal = 0, otherwise ntotal
\* has grown by n; no element at an index >= natoms times the values per
\* atom of any dump array has been written
C15_WriteData ==
  [][\A n \in 0 .. MaxChunk, ntimestep \in 0 .. MaxStep :
       WriteData(n, ntimestep) =>
         /\ 0 <= dump'.ntotal /\ dump'.ntotal < dump.natoms
         /\ IF dump.ntotal + n = dump.natoms
            THEN dump'.nframes = dump.nframes + 1 /\ dump'.ntotal = 0
            ELSE dump'.nframes = dump.nframes /\ dump'.ntotal = dump.ntotal + n
         /\ \A A \in DumpArrays(dump') : A[1].hi <= dump.natoms * A[2]]_vars

====
